---- MODULE Spec2Model ----
(***************************************************************************)
(* Support-ticket dashboard front end: the client-side ticket filter of    *)
(* the tickets page (the mock-data page and the backend-backed page), the  *)
(* ApiClient request adapter, and the new-ticket form.                     *)
(*                                                                         *)
(* Text is modelled as a sequence of one-character strings so that         *)
(* toLowerCase() and includes() are computed, not assumed.                 *)
(***************************************************************************)
EXTENDS Integers, Sequences, FiniteSets, TLC

(***************************************************************************)
(* Bounds                                                                  *)
(***************************************************************************)
MaxTickets == 2      \* longest ticket list held by a page or the backend
MaxSearchLen == 2    \* longest search string typed into the search box
MaxRequests == 3     \* ticket fetches issued on the tickets page in one run
MaxSubmissions == 2  \* ticket-creation requests sent by the form in one run
MaxCalls == 2        \* ApiClient method calls in one run
MaxLoads == 2        \* runs of the dashboard's load effect in one run
MaxLimit == 2        \* largest limit and offset handed to getTickets

(***************************************************************************)
(* Values                                                                  *)
(***************************************************************************)
Undefined == "undefined"     \* a JavaScript undefined / absent property
Null == "null"               \* a JavaScript null

\* the characters typed into the search box: a lower-case and an upper-case
\* letter; ticket texts hold both letters in both cases
Chars == {"a", "B"}

\* the letters toLowerCase changes, and what it changes them to
UpperCaseLetters ==
  <<"A", "B", "C", "D", "E", "F", "G", "H", "I", "J", "K", "L", "M",
    "N", "O", "P", "Q", "R", "S", "T", "U", "V", "W", "X", "Y", "Z">>
LowerCaseLetters ==
  <<"a", "b", "c", "d", "e", "f", "g", "h", "i", "j", "k", "l", "m",
    "n", "o", "p", "q", "r", "s", "t", "u", "v", "w", "x", "y", "z">>
LowerOf ==
  [c \in {UpperCaseLetters[i] : i \in 1..Len(UpperCaseLetters)} |->
     LowerCaseLetters[CHOOSE i \in 1..Len(UpperCaseLetters) : UpperCaseLetters[i] = c]]

\* String.prototype.toLowerCase on one character
LowerChar(c) == IF c \in DOMAIN LowerOf THEN LowerOf[c] ELSE c

\* a plausible slip: the text is left as typed
ToLowerCaseIdentity(s) == s

\* String.prototype.toLowerCase
ToLowerCase(s) == [i \in 1..Len(s) |-> LowerChar(s[i])]

\* String.prototype.includes: needle occurs in hay as a contiguous run
Includes(hay, needle) ==
  \E i \in 0..(Len(hay) - Len(needle)) :
    \A j \in 1..Len(needle) : hay[i + j] = needle[j]

RECURSIVE SeqsUpTo(_, _)
\* every sequence over S of length at most n
SeqsUpTo(S, n) ==
  IF n = 0 THEN {<<>>}
  ELSE LET shorter == SeqsUpTo(S, n - 1)
       IN shorter \cup {Append(s, x) : s \in {t \in shorter : Len(t) = n - 1}, x \in S}

SearchInputs == SeqsUpTo(Chars, MaxSearchLen)

\* a ticket id names one ticket: no list holds the same ticket twice
DistinctIds(ts) == \A i, j \in 1..Len(ts) : i # j => ts[i].id # ts[j].id

StatusValues == {"all", "open", "resolved", "closed"}
PriorityValues == {"all", "high", "low", "urgent"}

(***************************************************************************)
(* Mock-data tickets page (useState(mockTickets), filterTickets)           *)
(***************************************************************************)
\* the shape of a mockTickets entry: customer holds the e-mail address
MockTicketUniverse ==
  { [id |-> <<"A">>, subject |-> <<"a", "B">>, customer |-> <<"b">>,
     status |-> "open", priority |-> "high"],
    [id |-> <<"B">>, subject |-> <<"B", "a">>, customer |-> <<"a", "a">>,
     status |-> "resolved", priority |-> "low"],
    [id |-> <<"b", "b">>, subject |-> <<>>, customer |-> <<"A", "b">>,
     status |-> "open", priority |-> "low"],
    [id |-> <<"a">>, subject |-> <<"A", "A">>, customer |-> <<"B">>,
     status |-> "resolved", priority |-> "high"] }

MockTicketLists == {ts \in SeqsUpTo(MockTicketUniverse, MaxTickets) : DistinctIds(ts)}

VARIABLES
  ticketsM,           \* mock page: tickets
  filteredTicketsM,   \* mock page: filteredTickets
  searchQueryM,       \* mock page: searchQuery
  statusFilterM,      \* mock page: statusFilter
  priorityFilterM     \* mock page: priorityFilter

mockVars == <<ticketsM, filteredTicketsM, searchQueryM, statusFilterM, priorityFilterM>>

\* a plausible slip: the status step is skipped
FilterTicketsNoStatus(tickets, search, status, priority) ==
  LET bySearch ==
        IF search # <<>>
        THEN SelectSeq(tickets, LAMBDA t :
               \/ Includes(ToLowerCase(t.subject), ToLowerCase(search))
               \/ Includes(ToLowerCase(t.customer), ToLowerCase(search))
               \/ Includes(ToLowerCase(t.id), ToLowerCase(search)))
        ELSE tickets
  IN IF priority # "all"
     THEN SelectSeq(bySearch, LAMBDA t : t.priority = priority)
     ELSE bySearch

\* filterTickets(search, status, priority): the value given to setFilteredTickets
FilterTickets(tickets, search, status, priority) ==
  LET bySearch ==
        IF search # <<>>
        THEN SelectSeq(tickets, LAMBDA t :
               \/ Includes(ToLowerCase(t.subject), ToLowerCase(search))
               \/ Includes(ToLowerCase(t.customer), ToLowerCase(search))
               \/ Includes(ToLowerCase(t.id), ToLowerCase(search)))
        ELSE tickets
      byStatus ==
        IF status # "all"
        THEN SelectSeq(bySearch, LAMBDA t : t.status = status)
        ELSE bySearch
  IN IF priority # "all"
     THEN SelectSeq(byStatus, LAMBDA t : t.priority = priority)
     ELSE byStatus

MockInit ==
  /\ ticketsM \in MockTicketLists
  /\ filteredTicketsM = ticketsM
  /\ searchQueryM = <<>>
  /\ statusFilterM = "all"
  /\ priorityFilterM = "all"

\* handleSearch(query)
HandleSearchM(q) ==
  /\ searchQueryM' = q
  /\ filteredTicketsM' = FilterTickets(ticketsM, q, statusFilterM, priorityFilterM)
  /\ UNCHANGED <<ticketsM, statusFilterM, priorityFilterM>>

\* handleStatusFilter(status)
HandleStatusFilterM(s) ==
  /\ statusFilterM' = s
  /\ filteredTicketsM' = FilterTickets(ticketsM, searchQueryM, s, priorityFilterM)
  /\ UNCHANGED <<ticketsM, searchQueryM, priorityFilterM>>

\* handlePriorityFilter(priority)
HandlePriorityFilterM(p) ==
  /\ priorityFilterM' = p
  /\ filteredTicketsM' = FilterTickets(ticketsM, searchQueryM, statusFilterM, p)
  /\ UNCHANGED <<ticketsM, searchQueryM, statusFilterM>>

MockNext ==
  \/ \E q \in SearchInputs : HandleSearchM(q)
  \/ \E s \in StatusValues : HandleStatusFilterM(s)
  \/ \E p \in PriorityValues : HandlePriorityFilterM(p)

(***************************************************************************)
(* ApiClient.getTickets: the query string                                  *)
(***************************************************************************)
\* a plausible slip: offset tested for truthiness, as limit is
GetTicketsQueryOffsetTruthy(params) ==
  LET sp1 == IF params.status # Undefined /\ params.status # "" /\ params.status # "all"
             THEN <<<<"status", params.status>>>> ELSE <<>>
      sp2 == IF params.priority # Undefined /\ params.priority # "" /\ params.priority # "all"
             THEN <<<<"priority", params.priority>>>> ELSE <<>>
      sp3 == IF params.limit # <<>> /\ params.limit[1] # 0
             THEN <<<<"limit", ToString(params.limit[1])>>>> ELSE <<>>
      sp4 == IF params.offset # <<>> /\ params.offset[1] # 0
             THEN <<<<"offset", ToString(params.offset[1])>>>> ELSE <<>>
  IN sp1 \o sp2 \o sp3 \o sp4

\* the URLSearchParams built by getTickets, as the sequence of its <<key, value>> pairs;
\* status and priority are Undefined when the caller left them out; limit and
\* offset are <<n>> for the number n and <<>> when the caller left them out
GetTicketsQuery(params) ==
  LET sp1 == IF params.status # Undefined /\ params.status # "" /\ params.status # "all"
             THEN <<<<"status", params.status>>>> ELSE <<>>
      sp2 == IF params.priority # Undefined /\ params.priority # "" /\ params.priority # "all"
             THEN <<<<"priority", params.priority>>>> ELSE <<>>
      sp3 == IF params.limit # <<>> /\ params.limit[1] # 0
             THEN <<<<"limit", ToString(params.limit[1])>>>> ELSE <<>>
      sp4 == IF params.offset # <<>>
             THEN <<<<"offset", ToString(params.offset[1])>>>> ELSE <<>>
  IN sp1 \o sp2 \o sp3 \o sp4

\* URLSearchParams.get: the first value stored under key, or Null
QueryGet(q, key) ==
  IF \E i \in 1..Len(q) : q[i][1] = key
  THEN q[CHOOSE i \in 1..Len(q) :
           q[i][1] = key /\ \A j \in 1..(i - 1) : q[j][1] # key][2]
  ELSE Null

(***************************************************************************)
(* Backend-backed tickets page                                             *)
(***************************************************************************)
LiveStatusValues == {"all", "open", "resolved"}
LivePriorityValues == {"all", "high"}

\* a Ticket as the backend returns it.  customer_email is <<>> when the field is
\* absent or empty, customer_nested is customer.email (<<>> when there is no
\* customer object): the page reads both through "|| ''".
TicketUniverse ==
  { [id |-> <<"A">>, subject |-> <<"a", "B">>, customer_email |-> <<"b">>,
     customer_nested |-> <<>>, status |-> "open", priority |-> "high"],
    [id |-> <<"B">>, subject |-> <<"B", "a">>, customer_email |-> <<>>,
     customer_nested |-> <<"A", "a">>, status |-> "resolved", priority |-> "low"],
    [id |-> <<"a", "a">>, subject |-> <<>>, customer_email |-> <<"a">>,
     customer_nested |-> <<"B">>, status |-> "open", priority |-> "low"] }

TicketLists == {ts \in SeqsUpTo(TicketUniverse, MaxTickets) : DistinctIds(ts)}

\* the messages an ApiClient result can carry in error ("" makes the page fall
\* back to its default text)
ResultErrors == {"", "Not Found"}

VARIABLES
  db,                 \* the tickets the backend holds
  isSignedIn,         \* useUser().isSignedIn
  tickets,            \* useState<Ticket[]>([])
  filteredTickets,    \* useState<Ticket[]>([])
  searchQuery,        \* useState('')
  statusFilter,       \* useState('all')
  priorityFilter,     \* useState('all')
  isLoading,          \* useState(false)
  isInitialLoading,   \* useState(true)
  error,              \* useState<string | null>(null)
  pending,            \* fetchTickets calls suspended at "await api.getTickets"
  issued,             \* number of fetchTickets calls made so far
  lastDone            \* the fetchTickets call that ran to its end last; allOk
                      \* tells whether every call so far ended with tickets

liveVars == <<db, isSignedIn, tickets, filteredTickets, searchQuery, statusFilter,
              priorityFilter, isLoading, isInitialLoading, error, pending, issued,
              lastDone>>

\* the e-mail address the filter effect searches in
CustomerEmail(t) ==
  IF t.customer_email # <<>> THEN t.customer_email ELSE t.customer_nested

\* the "Apply client-side filters" effect: the value given to setFilteredTickets
FilterEffect(ts, query) ==
  LET search == ToLowerCase(query)
  IN SelectSeq(ts, LAMBDA t :
       LET subject == ToLowerCase(t.subject)
           id == ToLowerCase(t.id)
           customer == ToLowerCase(CustomerEmail(t))
       IN IF search = <<>> THEN TRUE
          ELSE \/ Includes(subject, search)
               \/ Includes(customer, search)
               \/ Includes(id, search))

\* GET /tickets/ on the backend: the stored tickets that match the query
BackendList(q) ==
  SelectSeq(db, LAMBDA t :
    /\ QueryGet(q, "status") \in {Null, t.status}
    /\ QueryGet(q, "priority") \in {Null, t.priority})

\* the arguments fetchTickets passes to api.getTickets, from the filter values
\* its closure captured
FetchParams(status, priority) ==
  [status |-> IF status # "all" THEN status ELSE Undefined,
   priority |-> IF priority # "all" THEN priority ELSE Undefined,
   limit |-> <<100>>,
   offset |-> <<>>]

\* one fetchTickets(initial) call up to its await
FetchCall(n, initial, status, priority, origin) ==
  [n |-> n, initial |-> initial, origin |-> origin,
   query |-> GetTicketsQuery(FetchParams(status, priority))]

NoFetch == [n |-> 0, initial |-> FALSE, origin |-> "none", query |-> <<>>,
            outcome |-> "none", allOk |-> TRUE]

LiveInit ==
  /\ db \in TicketLists
  /\ isSignedIn = FALSE
  /\ tickets = <<>>
  /\ filteredTickets = <<>>
  /\ searchQuery = <<>>
  /\ statusFilter = "all"
  /\ priorityFilter = "all"
  /\ isLoading = FALSE
  /\ isInitialLoading = TRUE
  /\ error = Null
  /\ pending = {}
  /\ issued = 0
  /\ lastDone = NoFetch

\* the page shows its controls only when signed in and not in the initial load
ControlsShown == isSignedIn /\ ~isInitialLoading

\* the outcomes of "await api.getTickets(...)" for a call with query q:
\*   ok        {success: true, data: {tickets, total}}
\*   notickets {success: true, data: {...}} without a tickets property
\*   nodata    {success: true, data: null}
\*   failed    {success: false, data: null, error}
\*   threw     the awaited promise rejected
FetchOutcomes(q) ==
  {[kind |-> "ok", tickets |-> BackendList(q), error |-> Undefined],
   [kind |-> "notickets", tickets |-> <<>>, error |-> Undefined],
   [kind |-> "nodata", tickets |-> <<>>, error |-> Undefined],
   [kind |-> "threw", tickets |-> <<>>, error |-> Undefined]}
  \cup {[kind |-> "failed", tickets |-> <<>>, error |-> e] : e \in ResultErrors}

\* a plausible slip: the failure branches keep the old list
TicketsAfterFetchKeep(o) ==
  IF o.kind \in {"ok", "notickets"} THEN o.tickets ELSE tickets

\* the value fetchTickets gives to setTickets for outcome o
TicketsAfterFetch(o) ==
  IF o.kind \in {"ok", "notickets"}
  THEN o.tickets       \* ticketData: data.tickets || []
  ELSE <<>>            \* setTickets([]) in the else branch and in catch

\* a plausible slip: the result's error is shown as it is
ErrorAfterFetchRaw(o) ==
  CASE o.kind \in {"ok", "notickets"} -> error
    [] o.kind = "threw" -> "Failed to load tickets. Please try again."
    [] o.kind = "failed" -> o.error
    [] OTHER -> "Failed to load tickets"

\* the error state after fetchTickets handled outcome o
ErrorAfterFetch(o) ==
  CASE o.kind \in {"ok", "notickets"} -> error
    [] o.kind = "threw" -> "Failed to load tickets. Please try again."
    [] o.kind = "failed" /\ o.error \notin {"", Undefined} -> o.error
    [] OTHER -> "Failed to load tickets"

\* fetchTickets up to the await, for the calls cs made in one event: the loading
\* flag of each call is set, the error is cleared, the requests go out
StartFetches(cs) ==
  /\ issued + Len(cs) <= MaxRequests
  /\ pending' = pending \cup {cs[i] : i \in 1..Len(cs)}
  /\ issued' = issued + Len(cs)
  /\ isInitialLoading' = IF \E i \in 1..Len(cs) : cs[i].initial
                         THEN TRUE ELSE isInitialLoading
  /\ isLoading' = IF \E i \in 1..Len(cs) : ~cs[i].initial THEN TRUE ELSE isLoading
  /\ error' = Null

\* Clerk reports the signed-in user; the initial-load effect calls fetchTickets(true)
SignedIn ==
  /\ ~isSignedIn
  /\ isSignedIn' = TRUE
  /\ StartFetches(<<FetchCall(issued + 1, TRUE, statusFilter, priorityFilter, "effect")>>)
  /\ UNCHANGED <<db, tickets, filteredTickets, searchQuery, statusFilter,
                 priorityFilter, lastDone>>

\* handleSearch(query), then the filter effect
HandleSearch(q) ==
  /\ ControlsShown
  /\ searchQuery' = q
  /\ filteredTickets' = FilterEffect(tickets, q)
  /\ UNCHANGED <<db, isSignedIn, tickets, statusFilter, priorityFilter, isLoading,
                 isInitialLoading, error, pending, issued, lastDone>>

\* handleStatusFilter(status): fetchTickets(true) runs in the handler with the
\* filter values of the render the handler belongs to; when the value changed,
\* fetchTickets is rebuilt and the initial-load effect calls it again
HandleStatusFilter(s) ==
  /\ ControlsShown
  /\ statusFilter' = s
  /\ StartFetches(
       <<FetchCall(issued + 1, TRUE, statusFilter, priorityFilter, "handler")>>
       \o IF s # statusFilter
          THEN <<FetchCall(issued + 2, TRUE, s, priorityFilter, "effect")>>
          ELSE <<>>)
  /\ UNCHANGED <<db, isSignedIn, tickets, filteredTickets, searchQuery,
                 priorityFilter, lastDone>>

\* handlePriorityFilter(priority)
HandlePriorityFilter(p) ==
  /\ ControlsShown
  /\ priorityFilter' = p
  /\ StartFetches(
       <<FetchCall(issued + 1, TRUE, statusFilter, priorityFilter, "handler")>>
       \o IF p # priorityFilter
          THEN <<FetchCall(issued + 2, TRUE, statusFilter, p, "effect")>>
          ELSE <<>>)
  /\ UNCHANGED <<db, isSignedIn, tickets, filteredTickets, searchQuery,
                 statusFilter, lastDone>>

\* refreshTickets: the Refresh button, disabled while isLoading
RefreshTickets ==
  /\ ControlsShown
  /\ ~isLoading
  /\ StartFetches(<<FetchCall(issued + 1, FALSE, statusFilter, priorityFilter, "refresh")>>)
  /\ UNCHANGED <<db, isSignedIn, tickets, filteredTickets, searchQuery, statusFilter,
                 priorityFilter, lastDone>>

\* the Retry button of the error banner
Retry ==
  /\ ControlsShown
  /\ error # Null
  /\ StartFetches(<<FetchCall(issued + 1, TRUE, statusFilter, priorityFilter, "retry")>>)
  /\ UNCHANGED <<db, isSignedIn, tickets, filteredTickets, searchQuery, statusFilter,
                 priorityFilter, lastDone>>

\* a plausible slip: the flag is cleared at the end of try, not in finally
FetchSettlesNoFinally(c, o) ==
  /\ c \in pending
  /\ o \in FetchOutcomes(c.query)
  /\ pending' = pending \ {c}
  /\ tickets' = TicketsAfterFetch(o)
  /\ filteredTickets' = FilterEffect(tickets', searchQuery)
  /\ error' = ErrorAfterFetch(o)
  /\ isInitialLoading' = IF c.initial /\ o.kind # "threw" THEN FALSE ELSE isInitialLoading
  /\ isLoading' = IF c.initial \/ o.kind = "threw" THEN isLoading ELSE FALSE
  /\ lastDone' = [n |-> c.n, initial |-> c.initial, origin |-> c.origin,
                  query |-> c.query, outcome |-> o.kind,
                  allOk |-> lastDone.allOk /\ o.kind = "ok"]
  /\ UNCHANGED <<db, isSignedIn, searchQuery, statusFilter, priorityFilter, issued>>

\* api.getTickets settles for call c with outcome o and fetchTickets runs to its
\* end: try / else / catch / finally, then the filter effect
FetchSettles(c, o) ==
  /\ c \in pending
  /\ o \in FetchOutcomes(c.query)
  /\ pending' = pending \ {c}
  /\ tickets' = TicketsAfterFetch(o)
  /\ filteredTickets' = FilterEffect(tickets', searchQuery)
  /\ error' = ErrorAfterFetch(o)
  /\ isInitialLoading' = IF c.initial THEN FALSE ELSE isInitialLoading
  /\ isLoading' = IF c.initial THEN isLoading ELSE FALSE
  /\ lastDone' = [n |-> c.n, initial |-> c.initial, origin |-> c.origin,
                  query |-> c.query, outcome |-> o.kind,
                  allOk |-> lastDone.allOk /\ o.kind = "ok"]
  /\ UNCHANGED <<db, isSignedIn, searchQuery, statusFilter, priorityFilter, issued>>

LiveNext ==
  \/ SignedIn
  \/ \E q \in SearchInputs : HandleSearch(q)
  \/ \E s \in LiveStatusValues : HandleStatusFilter(s)
  \/ \E p \in LivePriorityValues : HandlePriorityFilter(p)
  \/ RefreshTickets
  \/ Retry
  \/ \E c \in pending : \E o \in FetchOutcomes(c.query) : FetchSettles(c, o)

(***************************************************************************)
(* ApiClient: getAuthToken and request                                     *)
(***************************************************************************)
ApiMethods == {"getTickets", "getTicket", "createTicket", "getAnalytics",
               "getAiPerformance", "healthCheck"}

\* the RequestInit a method hands to request(); only createTicket passes one
OptionsOf(m) ==
  IF m = "createTicket" THEN [method |-> "POST", body |-> "JSON.stringify(data)"]
  ELSE <<>>

\* what the identity provider does inside getAuthToken:
\*   noWindow   typeof window === 'undefined', the body is skipped
\*   throws     the import, useAuth() or getToken() throws
\*   signedOut  getToken() resolves to null
\*   token      getToken() resolves to a token
IdpOutcomes ==
  {[kind |-> "noWindow", token |-> Null], [kind |-> "throws", token |-> Null],
   [kind |-> "signedOut", token |-> Null], [kind |-> "token", token |-> "jwt-1"]}

\* getAuthToken(): string | null
GetAuthToken(idp) == IF idp.kind = "token" THEN idp.token ELSE Null

\* the JSON values a response body can hold
JNull == [json |-> "null"]
ApiItems == {"TKT-1", "TKT-2"}
ApiItemLists == SeqsUpTo(ApiItems, MaxTickets)
BodyMessages == {"", "backend says no"}
JsonBodies ==
  {JNull}
  \cup {[json |-> "array", items |-> a] : a \in ApiItemLists}
  \cup {[json |-> "object", fields |-> [tickets |-> a, total |-> Len(a)]] :
          a \in {t \in ApiItemLists : Len(t) <= 1}}
  \cup {[json |-> "object", fields |-> [message |-> m]] : m \in BodyMessages}
  \cup {[json |-> "object", fields |-> <<>>]}

\* the responses fetch can resolve with; parses is FALSE when res.json() throws
Responses ==
  {[status |-> st, statusText |-> tx, isJson |-> TRUE, parses |-> TRUE, body |-> b] :
     st \in {200, 201, 404, 500}, tx \in {"", "Status Text"}, b \in JsonBodies}
  \cup
  {[status |-> st, statusText |-> tx, isJson |-> j, parses |-> FALSE, body |-> JNull] :
     st \in {200, 404}, tx \in {"", "Status Text"}, j \in BOOLEAN}

\* the values fetch can reject with
Thrown ==
  {[isError |-> TRUE, text |-> "Failed to fetch"], [isError |-> TRUE, text |-> ""],
   [isError |-> FALSE, text |-> "aborted by caller"]}

ResOk(res) == res.status >= 200 /\ res.status <= 299

\* data?.message
MessageOf(data) ==
  IF data.json = "object" /\ "message" \in DOMAIN data.fields
  THEN data.fields.message ELSE Undefined

Truthy(str) == str # Undefined /\ str # Null /\ str # ""

\* a plausible slip: the Authorization header is written whatever the token is
BuildHeadersAlways(options, token) ==
  ("Authorization" :> ("Bearer " \o token))
  @@ (IF "headers" \in DOMAIN options THEN options.headers ELSE <<>>)
  @@ ("Content-Type" :> "application/json")

\* the headers object request() builds
BuildHeaders(options, token) ==
  (IF Truthy(token) THEN "Authorization" :> ("Bearer " \o token) ELSE <<>>)
  @@ (IF "headers" \in DOMAIN options THEN options.headers ELSE <<>>)
  @@ ("Content-Type" :> "application/json")

\* the second argument of fetch: {...options, headers, cache, redirect}
BuildInit(options, headers) ==
  [headers |-> headers, cache |-> "no-store", redirect |-> "follow"] @@ options

\* the catch block of request(): the failed result returned for a thrown value
\* (e.message for an Error, String(e) otherwise)
CatchResult(e) ==
  [threw |-> FALSE, success |-> FALSE, data |-> JNull, error |-> e.text,
   message |-> Undefined]

\* a plausible slip: an HTTP error escapes the adapter
AfterResponseThrows(res) ==
  LET data == IF res.isJson THEN res.body ELSE JNull
  IN IF res.isJson /\ ~res.parses
     THEN CatchResult([isError |-> TRUE, text |-> "Unexpected token in JSON"])
     ELSE IF ~ResOk(res)
     THEN [threw |-> TRUE, success |-> FALSE, data |-> JNull,
           error |-> Undefined, message |-> Undefined]
     ELSE IF data.json = "array"
     THEN [threw |-> FALSE, success |-> TRUE,
           data |-> [json |-> "object",
                     fields |-> [tickets |-> data.items, total |-> Len(data.items)]],
           error |-> Undefined, message |-> Undefined]
     ELSE [threw |-> FALSE, success |-> TRUE, data |-> data, error |-> Undefined,
           message |-> MessageOf(data)]

\* a plausible slip: a bare array is passed through as it is
AfterResponseNoNormalize(res) ==
  LET data == IF res.isJson THEN res.body ELSE JNull
  IN IF res.isJson /\ ~res.parses
     THEN CatchResult([isError |-> TRUE, text |-> "Unexpected token in JSON"])
     ELSE IF ~ResOk(res)
     THEN CatchResult([isError |-> TRUE,
            text |-> IF Truthy(MessageOf(data)) THEN MessageOf(data)
                     ELSE IF Truthy(res.statusText) THEN res.statusText
                     ELSE "HTTP " \o ToString(res.status)])
     ELSE [threw |-> FALSE, success |-> TRUE, data |-> data, error |-> Undefined,
           message |-> MessageOf(data)]

\* request() from the resolved fetch to its return
AfterResponse(res) ==
  LET data == IF res.isJson THEN res.body ELSE JNull
  IN IF res.isJson /\ ~res.parses
     THEN CatchResult([isError |-> TRUE, text |-> "Unexpected token in JSON"])
     ELSE IF ~ResOk(res)
     THEN CatchResult([isError |-> TRUE,
            text |-> IF Truthy(MessageOf(data)) THEN MessageOf(data)
                     ELSE IF Truthy(res.statusText) THEN res.statusText
                     ELSE "HTTP " \o ToString(res.status)])
     ELSE IF data.json = "array"
     THEN [threw |-> FALSE, success |-> TRUE,
           data |-> [json |-> "object",
                     fields |-> [tickets |-> data.items, total |-> Len(data.items)]],
           error |-> Undefined, message |-> Undefined]
     ELSE [threw |-> FALSE, success |-> TRUE, data |-> data, error |-> Undefined,
           message |-> MessageOf(data)]

VARIABLES
  apiPc,        \* where the current ApiClient call stands
  apiMethod,    \* the method that was called
  apiIdp,       \* what the identity provider did in getAuthToken
  apiSent,      \* the RequestInit of every fetch the call issued, in order
  apiInput,     \* what the network handed back: a response or a thrown value
  apiResult,    \* what the call returned
  apiCalls      \* calls made so far

apiVars == <<apiPc, apiMethod, apiIdp, apiSent, apiInput, apiResult, apiCalls>>

NoInput == [kind |-> "none"]
NoResult == [threw |-> FALSE, success |-> FALSE, data |-> JNull, error |-> Undefined,
             message |-> Undefined]

ApiInit ==
  /\ apiPc = "idle"
  /\ apiMethod = "none"
  /\ apiIdp = [kind |-> "none", token |-> Null]
  /\ apiSent = <<>>
  /\ apiInput = NoInput
  /\ apiResult = NoResult
  /\ apiCalls = 0

\* a method of the client is called: request() starts and awaits getAuthToken()
ApiCall(m) ==
  /\ apiPc \in {"idle", "returned"}
  /\ apiCalls < MaxCalls
  /\ apiPc' = "token"
  /\ apiMethod' = m
  /\ apiIdp' = [kind |-> "none", token |-> Null]
  /\ apiSent' = <<>>
  /\ apiInput' = NoInput
  /\ apiResult' = NoResult
  /\ apiCalls' = apiCalls + 1

\* getAuthToken() settles, the headers are built and fetch is called
ApiFetch(idp) ==
  /\ apiPc = "token"
  /\ apiIdp' = idp
  /\ apiSent' = Append(apiSent, BuildInit(OptionsOf(apiMethod),
                                BuildHeaders(OptionsOf(apiMethod), GetAuthToken(idp))))
  /\ apiPc' = "fetching"
  /\ UNCHANGED <<apiMethod, apiInput, apiResult, apiCalls>>

\* fetch resolves with a response; request() runs to its return
ApiResponds(res) ==
  /\ apiPc = "fetching"
  /\ apiInput' = [kind |-> "response", res |-> res]
  /\ apiResult' = AfterResponse(res)
  /\ apiPc' = "returned"
  /\ UNCHANGED <<apiMethod, apiIdp, apiSent, apiCalls>>

\* a plausible slip: a rejected fetch is sent once more
ApiRejectsRetry(e) ==
  /\ apiPc = "fetching"
  /\ apiInput' = [kind |-> "thrown", e |-> e]
  /\ IF Len(apiSent) < 2
     THEN /\ apiSent' = Append(apiSent, apiSent[1])
          /\ UNCHANGED <<apiResult, apiPc>>
     ELSE /\ apiResult' = CatchResult(e)
          /\ apiPc' = "returned"
          /\ UNCHANGED apiSent
  /\ UNCHANGED <<apiMethod, apiIdp, apiCalls>>

\* fetch rejects; the catch block returns the failed result
ApiRejects(e) ==
  /\ apiPc = "fetching"
  /\ apiInput' = [kind |-> "thrown", e |-> e]
  /\ apiResult' = CatchResult(e)
  /\ apiPc' = "returned"
  /\ UNCHANGED <<apiMethod, apiIdp, apiSent, apiCalls>>

ApiNext ==
  \/ \E m \in ApiMethods : ApiCall(m)
  \/ \E idp \in IdpOutcomes : ApiFetch(idp)
  \/ \E res \in Responses : ApiResponds(res)
  \/ \E e \in Thrown : ApiRejects(e)

(***************************************************************************)
(* New-ticket form (NewTicketPage)                                         *)
(*                                                                         *)
(* A message is a sequence of words, so that err.message.includes(word) is *)
(* computed with Includes.                                                 *)
(***************************************************************************)
\* what can be typed into the subject and description fields
FormTexts == {<<>>, <<" ">>, <<"a">>, <<"a", "_", "a">>}
FormPriorities == {"medium", "high"}
FormCategories == {"general", "technical"}

\* String.prototype.trim() leaves nothing
RECURSIVE IsBlank(_)
IsBlank(text) ==
  IF text = <<>> THEN TRUE ELSE Head(text) = " " /\ IsBlank(Tail(text))

\* the responses the ticket-creation fetch can resolve with
FormResponses ==
  {[ok |-> TRUE, status |-> 200, statusText |-> "OK", ai |-> TRUE, message |-> <<>>],
   [ok |-> TRUE, status |-> 200, statusText |-> "OK", ai |-> FALSE, message |-> <<>>],
   [ok |-> FALSE, status |-> 404, statusText |-> "Not Found", ai |-> FALSE,
    message |-> <<>>],
   [ok |-> FALSE, status |-> 500, statusText |-> "Error", ai |-> FALSE,
    message |-> <<"duplicate", "ticket">>]}

\* the errors the try block of handleSubmit can throw
TimeoutError == [name |-> "Error", message |-> <<"Request", "timeout", "after", "60", "seconds">>]
NetworkError == [name |-> "TypeError", message |-> <<"Failed", "to", "fetch">>]
AbortError == [name |-> "AbortError", message |-> <<"The", "operation", "was", "aborted">>]
HttpError(res) ==
  [name |-> "Error",
   message |-> IF res.message # <<>> THEN res.message
               ELSE <<"HTTP", ToString(res.status), ":", res.statusText>>]

\* the text the catch block gives to setError
CatchMessage(err) ==
  IF err.name = "AbortError" THEN <<"Request was cancelled.">>
  ELSE IF Includes(err.message, <<"timeout">>) THEN <<"Request timed out.">>
  ELSE IF Includes(err.message, <<"duplicate">>) THEN <<"This ticket was already created.">>
  ELSE IF Includes(err.message, <<"404">>) THEN <<"API endpoint not found.">>
  ELSE IF Includes(err.message, <<"401">>) \/ Includes(err.message, <<"Unauthorized">>)
       THEN <<"Authentication error.">>
  ELSE IF Includes(err.message, <<"400">>) THEN <<"Invalid request.">>
  ELSE IF Includes(err.message, <<"500">>) THEN <<"Server error.">>
  ELSE <<"Failed to create ticket:">> \o err.message

SuccessMessage(res) ==
  <<"Ticket created successfully!">>
  \o (IF res.ai THEN <<"AI has processed your request.">>
      ELSE <<"Our team will review your request.">>)

AlreadySubmitted == <<"This request was already submitted.">>

VARIABLES
  page,                 \* the route shown: "form", "dashboard" or "ticket"
  subject,              \* useState('')
  query,                \* useState('')
  priority,             \* useState('medium')
  category,             \* useState('general')
  isLoadingF,           \* the form's isLoading: useState(false)
  errorF,               \* the form's error: useState('')
  success,              \* useState('')
  submitTimeoutRef,     \* <<submission, timer>> of the handle held, <<0, "none">> at first
  abortControllerRef,   \* the submission whose AbortController is held, 0 at first
  lastSubmissionRef,    \* useRef<string>('')
  subs,                 \* the submissions that sent a request, in order
  consoleLast,          \* the line handleSubmit wrote to the console last
  lastSubmission        \* history: the subject and query of the submission accepted
                        \* last (see NoSubmission, RecordSubmission)

\* everything but the console
formState == <<page, subject, query, priority, category, isLoadingF, errorF, success,
               submitTimeoutRef, abortControllerRef, lastSubmissionRef, subs>>

formVars == <<formState, consoleLast, lastSubmission>>

\* lastSubmission before any submission was accepted
NoSubmission == [kept |-> FALSE, subject |-> <<>>, query |-> <<>>, again |-> FALSE]

\* the fields hold the subject and the description of the submission accepted last
SameContentAsLast ==
  lastSubmission.kept /\ subject = lastSubmission.subject /\ query = lastSubmission.query

\* the submission accepted last has set its success message and redirect timer
LastSubmissionSucceeded == Len(subs) > 0 /\ subs[Len(subs)].tRedirect # "none"

\* the submission accepted last has ended in the catch block
LastSubmissionFailed ==
  Len(subs) > 0 /\ subs[Len(subs)].settled /\ subs[Len(subs)].tRedirect = "none"

\* lastSubmission after a step of the form: an accepted submission is recorded,
\* and the content of a failed one is remembered for as long as the fields
\* still hold it
RecordSubmission ==
  lastSubmission' =
    IF Len(subs') > Len(subs)
    THEN [kept |-> TRUE, subject |-> subject, query |-> query, again |-> SameContentAsLast]
    ELSE IF LastSubmissionFailed'
            /\ (subject' # lastSubmission.subject \/ query' # lastSubmission.query)
    THEN NoSubmission
    ELSE lastSubmission

FormInit ==
  /\ page = "form"
  /\ subject = <<>>
  /\ query = <<>>
  /\ priority = "medium"
  /\ category = "general"
  /\ isLoadingF = FALSE
  /\ errorF = <<>>
  /\ success = <<>>
  /\ submitTimeoutRef = <<0, "none">>
  /\ abortControllerRef = 0
  /\ lastSubmissionRef = <<>>
  /\ subs = <<>>
  /\ consoleLast = "none"
  /\ lastSubmission = NoSubmission

\* `${subject}_${query}`
SubmissionKey(subj, qry) == subj \o <<"_">> \o qry

\* a plausible slip: the fields are tested without trim()
SubmitDisabledNoTrim == isLoadingF \/ subject = <<>> \/ query = <<>>

\* the submit button's disabled attribute
SubmitDisabled == isLoadingF \/ IsBlank(subject) \/ IsBlank(query)

\* a rejection of an aborted fetch is queued: it is delivered before any other event
AbortQueued == \E k \in 1..Len(subs) : subs[k].aborted /\ subs[k].fetch = "pending"

\* a state setter of the component: without effect once the form is unmounted
SetState(old, new) == IF page = "form" THEN new ELSE old

\* clearTimeout(submitTimeoutRef.current) applied to the submissions ss
ClearHeldTimer(ss) ==
  [k \in 1..Len(ss) |->
     IF submitTimeoutRef[1] = k /\ submitTimeoutRef[2] = "enable" /\ ss[k].tEnable = "armed"
     THEN [ss[k] EXCEPT !.tEnable = "cleared"]
     ELSE IF submitTimeoutRef[1] = k /\ submitTimeoutRef[2] = "redirect"
             /\ ss[k].tRedirect = "armed"
     THEN [ss[k] EXCEPT !.tRedirect = "cleared"]
     ELSE ss[k]]

\* a plausible slip: the previous request is left running
AbortHeldControllerSkipped(ss) == ss

\* abortControllerRef.current.abort() applied to the submissions ss
AbortHeldController(ss) ==
  [k \in 1..Len(ss) |->
     IF abortControllerRef = k THEN [ss[k] EXCEPT !.aborted = TRUE] ELSE ss[k]]

\* a plausible slip: the in-progress guard is missing
SubmitIgnoredNever == FALSE

\* the first guard of handleSubmit: if (isLoading) return
SubmitIgnored == isLoadingF

\* handleSubmit, from the submit event to the await of the fetch
HandleSubmit ==
  /\ page = "form"
  /\ ~AbortQueued
  /\ IF SubmitIgnored
     THEN /\ consoleLast' = "Already submitting, ignoring duplicate request"
          /\ UNCHANGED formState
     ELSE IF lastSubmissionRef = SubmissionKey(subject, query)
     THEN /\ errorF' = AlreadySubmitted
          /\ consoleLast' = "Duplicate content detected, ignoring request"
          /\ UNCHANGED <<page, subject, query, priority, category, isLoadingF, success,
                         submitTimeoutRef, abortControllerRef, lastSubmissionRef, subs>>
     ELSE /\ Len(subs) < MaxSubmissions
          /\ subs' = Append(AbortHeldController(ClearHeldTimer(subs)),
                       [aborted |-> FALSE, fetch |-> "pending", settled |-> FALSE,
                        tTimeout |-> "armed", tRedirect |-> "none", tEnable |-> "none"])
          /\ isLoadingF' = TRUE
          /\ errorF' = <<>>
          /\ success' = <<>>
          /\ abortControllerRef' = Len(subs) + 1
          /\ lastSubmissionRef' = SubmissionKey(subject, query)
          /\ consoleLast' = "Creating ticket..."
          /\ UNCHANGED <<page, subject, query, priority, category, submitTimeoutRef>>

\* the Create Ticket button is pressed
SubmitClick == ~SubmitDisabled /\ HandleSubmit

\* a submit event reaches the form while the button is disabled
SubmitEvent == SubmitDisabled /\ HandleSubmit

\* onChange of the subject input
SetSubject(t) ==
  /\ page = "form" /\ ~isLoadingF /\ ~AbortQueued
  /\ subject' = t
  /\ UNCHANGED <<page, query, priority, category, isLoadingF, errorF, success,
                 submitTimeoutRef, abortControllerRef, lastSubmissionRef, subs, consoleLast>>

\* onChange of the description textarea
SetQuery(t) ==
  /\ page = "form" /\ ~isLoadingF /\ ~AbortQueued
  /\ query' = t
  /\ UNCHANGED <<page, subject, priority, category, isLoadingF, errorF, success,
                 submitTimeoutRef, abortControllerRef, lastSubmissionRef, subs, consoleLast>>

\* onValueChange of the priority select
SetPriority(p) ==
  /\ page = "form" /\ ~isLoadingF /\ ~AbortQueued
  /\ priority' = p
  /\ UNCHANGED <<page, subject, query, category, isLoadingF, errorF, success,
                 submitTimeoutRef, abortControllerRef, lastSubmissionRef, subs, consoleLast>>

\* onValueChange of the category select
SetCategory(c) ==
  /\ page = "form" /\ ~isLoadingF /\ ~AbortQueued
  /\ category' = c
  /\ UNCHANGED <<page, subject, query, priority, isLoadingF, errorF, success,
                 submitTimeoutRef, abortControllerRef, lastSubmissionRef, subs, consoleLast>>

\* a plausible slip: the key is cleared on every path (in finally)
SucceedPathClearsKey(k, res) ==
  /\ success' = SetState(success, SuccessMessage(res))
  /\ subject' = SetState(subject, <<>>)
  /\ query' = SetState(query, <<>>)
  /\ priority' = SetState(priority, "medium")
  /\ category' = SetState(category, "general")
  /\ submitTimeoutRef' = <<k, "enable">>     \* finally overwrites the redirect handle
  /\ consoleLast' = "Ticket created successfully:"
  /\ lastSubmissionRef' = <<>>
  /\ UNCHANGED <<page, isLoadingF, errorF, abortControllerRef>>

\* the success path of submission k after the await, then finally
SucceedPath(k, res) ==
  /\ success' = SetState(success, SuccessMessage(res))
  /\ subject' = SetState(subject, <<>>)
  /\ query' = SetState(query, <<>>)
  /\ priority' = SetState(priority, "medium")
  /\ category' = SetState(category, "general")
  /\ submitTimeoutRef' = <<k, "enable">>     \* finally overwrites the redirect handle
  /\ consoleLast' = "Ticket created successfully:"
  /\ UNCHANGED <<page, isLoadingF, errorF, abortControllerRef, lastSubmissionRef>>

\* a plausible slip: the catch block leaves the key in place
CatchPathKeepsKey(k, err) ==
  /\ errorF' = SetState(errorF, CatchMessage(err))
  /\ submitTimeoutRef' = <<k, "enable">>
  /\ consoleLast' = "Failed to create ticket:"
  /\ UNCHANGED lastSubmissionRef
  /\ UNCHANGED <<page, subject, query, priority, category, isLoadingF, success,
                 abortControllerRef>>

\* the catch block of submission k for err, then finally
CatchPath(k, err) ==
  /\ errorF' = SetState(errorF, CatchMessage(err))
  /\ lastSubmissionRef' = <<>>
  /\ submitTimeoutRef' = <<k, "enable">>
  /\ consoleLast' = "Failed to create ticket:"
  /\ UNCHANGED <<page, subject, query, priority, category, isLoadingF, success,
                 abortControllerRef>>

\* the fetch of submission k resolves with res
FetchResolves(k, res) ==
  /\ ~AbortQueued
  /\ subs[k].fetch = "pending"
  /\ IF subs[k].settled
     THEN /\ subs' = [subs EXCEPT ![k].fetch = "resolved"]
          /\ UNCHANGED <<page, subject, query, priority, category, isLoadingF, errorF,
                         success, submitTimeoutRef, abortControllerRef, lastSubmissionRef,
                         consoleLast>>
     ELSE IF res.ok
     THEN /\ subs' = [subs EXCEPT ![k].fetch = "resolved", ![k].settled = TRUE,
                                  ![k].tRedirect = "armed", ![k].tEnable = "armed"]
          /\ SucceedPath(k, res)
     ELSE /\ subs' = [subs EXCEPT ![k].fetch = "resolved", ![k].settled = TRUE,
                                  ![k].tEnable = "armed"]
          /\ CatchPath(k, HttpError(res))

\* the fetch of submission k rejects with a network error
FetchRejects(k) ==
  /\ ~AbortQueued
  /\ subs[k].fetch = "pending"
  /\ IF subs[k].settled
     THEN /\ subs' = [subs EXCEPT ![k].fetch = "rejected"]
          /\ UNCHANGED <<page, subject, query, priority, category, isLoadingF, errorF,
                         success, submitTimeoutRef, abortControllerRef, lastSubmissionRef,
                         consoleLast>>
     ELSE /\ subs' = [subs EXCEPT ![k].fetch = "rejected", ![k].settled = TRUE,
                                  ![k].tEnable = "armed"]
          /\ CatchPath(k, NetworkError)

\* the aborted fetch of submission k rejects with an AbortError
AbortRejects(k) ==
  /\ subs[k].aborted
  /\ subs[k].fetch = "pending"
  /\ IF subs[k].settled
     THEN /\ subs' = [subs EXCEPT ![k].fetch = "rejected"]
          /\ UNCHANGED <<page, subject, query, priority, category, isLoadingF, errorF,
                         success, submitTimeoutRef, abortControllerRef, lastSubmissionRef,
                         consoleLast>>
     ELSE /\ subs' = [subs EXCEPT ![k].fetch = "rejected", ![k].settled = TRUE,
                                  ![k].tEnable = "armed"]
          /\ CatchPath(k, AbortError)

\* the 60-second timer of submission k fires
TimeoutFires(k) ==
  /\ ~AbortQueued
  /\ subs[k].tTimeout = "armed"
  /\ IF subs[k].settled
     THEN /\ subs' = [subs EXCEPT ![k].tTimeout = "fired"]
          /\ UNCHANGED <<page, subject, query, priority, category, isLoadingF, errorF,
                         success, submitTimeoutRef, abortControllerRef, lastSubmissionRef,
                         consoleLast>>
     ELSE /\ subs' = [subs EXCEPT ![k].tTimeout = "fired", ![k].settled = TRUE,
                                  ![k].tEnable = "armed"]
          /\ CatchPath(k, TimeoutError)

\* the 2-second timer set in finally by submission k fires
EnableFires(k) ==
  /\ ~AbortQueued
  /\ subs[k].tEnable = "armed"
  /\ subs' = [subs EXCEPT ![k].tEnable = "fired"]
  /\ isLoadingF' = SetState(isLoadingF, FALSE)
  /\ UNCHANGED <<page, subject, query, priority, category, errorF, success,
                 submitTimeoutRef, abortControllerRef, lastSubmissionRef, consoleLast>>

\* the 3-second redirect timer set by submission k fires; the 2-second timer set
\* in the same turn is no longer waiting
RedirectFires(k) ==
  /\ ~AbortQueued
  /\ subs[k].tRedirect = "armed"
  /\ subs[k].tEnable # "armed"
  /\ subs' = [subs EXCEPT ![k].tRedirect = "fired"]
  /\ page' = "ticket"
  /\ UNCHANGED <<subject, query, priority, category, isLoadingF, errorF, success,
                 submitTimeoutRef, abortControllerRef, lastSubmissionRef, consoleLast>>

\* handleCancel: the Cancel button, disabled while isLoading
HandleCancel ==
  /\ page = "form" /\ ~isLoadingF /\ ~AbortQueued
  /\ subs' = AbortHeldController(ClearHeldTimer(subs))
  /\ isLoadingF' = FALSE
  /\ page' = "dashboard"
  /\ UNCHANGED <<subject, query, priority, category, errorF, success,
                 submitTimeoutRef, abortControllerRef, lastSubmissionRef, consoleLast>>

\* what the user can do on the form, and what the network and the timers do
FormUserNext ==
  \/ SubmitClick
  \/ \E t \in FormTexts : SetSubject(t)
  \/ \E t \in FormTexts : SetQuery(t)
  \/ \E p \in FormPriorities : SetPriority(p)
  \/ \E c \in FormCategories : SetCategory(c)
  \/ \E k \in 1..Len(subs) : \E res \in FormResponses : FetchResolves(k, res)
  \/ \E k \in 1..Len(subs) : FetchRejects(k)
  \/ \E k \in 1..Len(subs) : AbortRejects(k)
  \/ \E k \in 1..Len(subs) : TimeoutFires(k)
  \/ \E k \in 1..Len(subs) : EnableFires(k)
  \/ \E k \in 1..Len(subs) : RedirectFires(k)
  \/ HandleCancel

\* the same, and submit events dispatched by a script (form.requestSubmit())
FormNext ==
  \/ FormUserNext
  \/ SubmitEvent

(***************************************************************************)
(* Dashboard page (DashboardPage): the load effect                         *)
(***************************************************************************)
\* api.getTickets({ limit: 10 }) as the load effect calls it
DashTicketsQuery ==
  GetTicketsQuery([status |-> Undefined, priority |-> Undefined,
                   limit |-> <<10>>, offset |-> <<>>])

\* the results api.getTickets can resolve with (request() never rejects):
\*   array     {success: true, data: [...]}
\*   ok        {success: true, data: {tickets, total}}
\*   notickets {success: true, data: {...}} without a tickets property
\*   nodata    {success: true, data: null}
\*   failed    {success: false, data: null, error}
DashTicketsResults ==
  {[kind |-> k, tickets |-> ts] : k \in {"array", "ok"}, ts \in SeqsUpTo(TicketUniverse, 1)}
  \cup {[kind |-> k, tickets |-> <<>>] : k \in {"notickets", "nodata", "failed"}}

\* the results api.getAnalytics can resolve with
DashMetricsResults ==
  {[success |-> TRUE, data |-> [total_tickets |-> 3, open_tickets |-> 1]],
   [success |-> TRUE, data |-> JNull],
   [success |-> FALSE, data |-> JNull]}

\* a request that was not made, and one that has not been answered
NotIssued == [kind |-> "notIssued"]
InFlight == [kind |-> "inFlight"]

VARIABLES
  isSignedInD,        \* dashboard: useUser().isSignedIn
  ticketsD,           \* dashboard: tickets, useState<Ticket[]>([])
  metrics,            \* useState<DashboardMetrics | null>(null)
  isLoadingD,         \* dashboard: isLoading, useState(true)
  loads               \* the runs of the load effect's async function, in order

dashVars == <<isSignedInD, ticketsD, metrics, isLoadingD, loads>>

DashInit ==
  /\ isSignedInD = FALSE
  /\ ticketsD = <<>>
  /\ metrics = JNull
  /\ isLoadingD = TRUE
  /\ loads = <<>>

\* a plausible slip: the analytics call waits for the tickets result
\* (await api.getTickets(...) first, api.getAnalytics() after it)
StartLoadSequential ==
  [pc |-> "awaiting", getTickets |-> InFlight, getAnalytics |-> NotIssued,
   query |-> DashTicketsQuery]

\* the async function from its start to "await Promise.all([...])": both calls
\* are made while the array is built, then the function suspends
StartLoad ==
  [pc |-> "awaiting", getTickets |-> InFlight, getAnalytics |-> InFlight,
   query |-> DashTicketsQuery]

\* a request of a load has been answered
Answered(r) == r \notin {NotIssued, InFlight}

\* Promise.all of load k is fulfilled and its continuation is queued: it runs
\* before any other event
LoadReady(k) ==
  /\ loads[k].pc = "awaiting"
  /\ Answered(loads[k].getTickets)
  /\ Answered(loads[k].getAnalytics)

ResumeQueued == \E k \in 1..Len(loads) : LoadReady(k)

\* Clerk reports a signed-in user: the effect runs the async function
SignedInD ==
  /\ ~ResumeQueued
  /\ ~isSignedInD
  /\ Len(loads) < MaxLoads
  /\ isSignedInD' = TRUE
  /\ isLoadingD' = TRUE
  /\ loads' = Append(loads, StartLoad)
  /\ UNCHANGED <<ticketsD, metrics>>

\* the session ends: the effect runs again and returns at its guard
SignedOutD ==
  /\ ~ResumeQueued
  /\ isSignedInD
  /\ isSignedInD' = FALSE
  /\ UNCHANGED <<ticketsD, metrics, isLoadingD, loads>>

\* api.getTickets of load k resolves with r
GetTicketsSettles(k, r) ==
  /\ ~ResumeQueued
  /\ loads[k].getTickets = InFlight
  /\ loads' = [loads EXCEPT ![k].getTickets = r]
  /\ UNCHANGED <<isSignedInD, ticketsD, metrics, isLoadingD>>

\* api.getAnalytics of load k resolves with r
GetAnalyticsSettles(k, r) ==
  /\ ~ResumeQueued
  /\ loads[k].getAnalytics = InFlight
  /\ loads' = [loads EXCEPT ![k].getAnalytics = r]
  /\ UNCHANGED <<isSignedInD, ticketsD, metrics, isLoadingD>>

\* the value the load gives to setTickets for ticketsResult r
TicketsOfResult(r) ==
  IF r.kind \in {"array", "ok", "notickets"} THEN r.tickets ELSE <<>>

\* the value the load gives to setMetrics for metricsResult r
MetricsOfResult(r) == IF r.success THEN r.data ELSE JNull

\* the async function of load k after the await, to its end
LoadResumes(k) ==
  /\ LoadReady(k)
  /\ ticketsD' = TicketsOfResult(loads[k].getTickets)
  /\ metrics' = MetricsOfResult(loads[k].getAnalytics)
  /\ isLoadingD' = FALSE
  /\ loads' = [loads EXCEPT ![k].pc = "done"]
  /\ UNCHANGED isSignedInD

DashNext ==
  \/ SignedInD
  \/ SignedOutD
  \/ \E k \in 1..Len(loads) : \E r \in DashTicketsResults : GetTicketsSettles(k, r)
  \/ \E k \in 1..Len(loads) : \E r \in DashMetricsResults : GetAnalyticsSettles(k, r)
  \/ \E k \in 1..Len(loads) : LoadResumes(k)

(***************************************************************************)
(* Badge styling: getStatusColor and getPriorityColor                      *)
(*                                                                         *)
(* A style is named by its colour: "red" stands for the class string       *)
(* 'bg-red-100 text-red-800 dark:bg-red-900 dark:text-red-200'.            *)
(***************************************************************************)
StyleClasses == {"red", "yellow", "orange", "green", "blue", "gray"}

\* a JavaScript value handed to a styling function: a string, undefined or null
JsString(text) == [type |-> "string", text |-> text]
JsUndefined == [type |-> "undefined"]
JsNull == [type |-> "null"]

\* (value || ''): the empty string for undefined, null and ''
OrEmpty(v) == IF v.type = "string" THEN v.text ELSE <<>>

\* the labels written in lower case, one character per element
Labels ==
  [open |-> <<"o", "p", "e", "n">>,
   in_progress |-> <<"i", "n", "_", "p", "r", "o", "g", "r", "e", "s", "s">>,
   waiting_approval |-> <<"w", "a", "i", "t", "i", "n", "g", "_",
                          "a", "p", "p", "r", "o", "v", "a", "l">>,
   resolved |-> <<"r", "e", "s", "o", "l", "v", "e", "d">>,
   closed |-> <<"c", "l", "o", "s", "e", "d">>,
   urgent |-> <<"u", "r", "g", "e", "n", "t">>,
   high |-> <<"h", "i", "g", "h">>,
   medium |-> <<"m", "e", "d", "i", "u", "m">>,
   low |-> <<"l", "o", "w">>,
   pending |-> <<"p", "e", "n", "d", "i", "n", "g">>]

\* getStatusColor of the tickets page
TicketsGetStatusColor(status) ==
  LET s == ToLowerCase(OrEmpty(status))
  IN CASE s = Labels.open -> "red"
       [] s = Labels.in_progress -> "yellow"
       [] s = Labels.waiting_approval -> "orange"
       [] s = Labels.resolved -> "green"
       [] s = Labels.closed -> "gray"
       [] OTHER -> "gray"

\* a plausible slip: switch (status), as the ticket detail page has it
DashGetStatusColorExact(status) ==
  LET s == OrEmpty(status)
  IN CASE s = Labels.open -> "red"
       [] s = Labels.in_progress -> "yellow"
       [] s = Labels.resolved -> "green"
       [] OTHER -> "gray"

\* getStatusColor of the dashboard page
DashGetStatusColor(status) ==
  LET s == ToLowerCase(OrEmpty(status))
  IN CASE s = Labels.open -> "red"
       [] s = Labels.in_progress -> "yellow"
       [] s = Labels.resolved -> "green"
       [] OTHER -> "gray"

\* getPriorityColor, the same text on the tickets page and on the dashboard page
GetPriorityColor(v) ==
  LET p == ToLowerCase(OrEmpty(v))
  IN CASE p = Labels.urgent -> "red"
       [] p = Labels.high -> "orange"
       [] p = Labels.medium -> "yellow"
       [] p = Labels.low -> "blue"
       [] OTHER -> "gray"

StyleFunctions == {"tickets.getStatusColor", "dashboard.getStatusColor",
                   "tickets.getPriorityColor", "dashboard.getPriorityColor"}

\* the styling function named fn applied to v
ApplyStyle(fn, v) ==
  CASE fn = "tickets.getStatusColor" -> TicketsGetStatusColor(v)
    [] fn = "dashboard.getStatusColor" -> DashGetStatusColor(v)
    [] OTHER -> GetPriorityColor(v)

\* String.prototype.toUpperCase on one character
UpperChar(c) ==
  IF \E i \in 1..Len(LowerCaseLetters) : LowerCaseLetters[i] = c
  THEN UpperCaseLetters[CHOOSE i \in 1..Len(LowerCaseLetters) : LowerCaseLetters[i] = c]
  ELSE c

\* spellings of the word w: as written, in capitals, and with one capital
Spellings(w) ==
  {w, [i \in 1..Len(w) |-> UpperChar(w[i])]}
  \cup {[i \in 1..Len(w) |-> IF i = k THEN UpperChar(w[i]) ELSE w[i]] : k \in 1..Len(w)}

\* the values a ticket's status or priority field is styled from: every label
\* of either kind in several spellings, other texts, the empty string, a
\* missing and a null field
StyleWords == {Labels[w] : w \in DOMAIN Labels}

StyleInputs ==
  {JsString(s) : s \in UNION {Spellings(w) : w \in StyleWords}}
  \cup {JsString(s) : s \in SearchInputs}
  \cup {JsUndefined, JsNull}

VARIABLES
  styleFn,            \* the styling function called last, "none" at first
  styleArg,           \* its argument
  styleResult         \* the class string it returned

styleVars == <<styleFn, styleArg, styleResult>>

StyleInit ==
  /\ styleFn = "none"
  /\ styleArg = JsUndefined
  /\ styleResult = "none"

\* a badge is rendered: fn is called with v
RenderBadge(fn, v) ==
  /\ styleFn' = fn
  /\ styleArg' = v
  /\ styleResult' = ApplyStyle(fn, v)

StyleNext == \E fn \in StyleFunctions : \E v \in StyleInputs : RenderBadge(fn, v)

(***************************************************************************)
(* ApiClient.getTickets: the endpoint it requests                          *)
(***************************************************************************)
\* getTickets() and getTickets({}): params?.x is undefined for every x
NoParams == [status |-> Undefined, priority |-> Undefined, limit |-> <<>>, offset |-> <<>>]

\* the arguments getTickets is called with
GetTicketsInputs ==
  [status : {Undefined, "", "all", "open", "resolved"},
   priority : {Undefined, "all", "high"},
   limit : {<<>>} \cup {<<n>> : n \in 0..MaxLimit},
   offset : {<<>>} \cup {<<n>> : n \in 0..MaxLimit}]

RECURSIVE SearchParamsToString(_)
\* URLSearchParams.toString(): key=value joined by &, one piece per element
SearchParamsToString(sp) ==
  IF sp = <<>> THEN <<>>
  ELSE <<sp[1][1], "=", sp[1][2]>>
       \o (IF Len(sp) > 1 THEN <<"&">> \o SearchParamsToString(Tail(sp)) ELSE <<>>)

\* `/tickets/${qs ? `?${qs}` : ''}`
GetTicketsEndpoint(params) ==
  LET qs == SearchParamsToString(GetTicketsQuery(params))
  IN <<"/tickets/">> \o (IF qs # <<>> THEN <<"?">> \o qs ELSE <<>>)

VARIABLES
  getTicketsCall        \* the last call of getTickets: its params and its endpoint

queryVars == <<getTicketsCall>>

QueryInit == getTicketsCall = [called |-> FALSE]

\* api.getTickets(params), up to this.request(endpoint)
GetTickets(params) ==
  getTicketsCall' = [called |-> TRUE, params |-> params,
                     endpoint |-> GetTicketsEndpoint(params)]

QueryNext == \E params \in GetTicketsInputs : GetTickets(params)

(***************************************************************************)
(* Specifications: one per component, the other components stay as built   *)
(***************************************************************************)
vars == <<mockVars, liveVars, apiVars, formVars, dashVars, styleVars, queryVars>>

MockIdle ==
  /\ ticketsM = <<>> /\ filteredTicketsM = <<>> /\ searchQueryM = <<>>
  /\ statusFilterM = "all" /\ priorityFilterM = "all"

LiveIdle ==
  /\ db = <<>> /\ isSignedIn = FALSE /\ tickets = <<>> /\ filteredTickets = <<>>
  /\ searchQuery = <<>> /\ statusFilter = "all" /\ priorityFilter = "all"
  /\ isLoading = FALSE /\ isInitialLoading = TRUE /\ error = Null
  /\ pending = {} /\ issued = 0 /\ lastDone = NoFetch

\* the mock-data tickets page
InitMock == MockInit /\ LiveIdle /\ ApiInit /\ FormInit /\ DashInit /\ StyleInit
  /\ QueryInit
NextMock ==
  MockNext /\ UNCHANGED <<liveVars, apiVars, formVars, dashVars, styleVars, queryVars>>
SpecMock == InitMock /\ [][NextMock]_vars

\* the backend-backed tickets page
InitTickets == LiveInit /\ MockIdle /\ ApiInit /\ FormInit /\ DashInit /\ StyleInit
  /\ QueryInit
NextTickets ==
  LiveNext /\ UNCHANGED <<mockVars, apiVars, formVars, dashVars, styleVars, queryVars>>
SpecTickets == InitTickets /\ [][NextTickets]_vars

\* the n-th fetchTickets call resumes from its await: the promise of
\* api.getTickets has settled and the event loop runs the continuation
FetchResumes(n) ==
  /\ \E c \in pending : c.n = n /\ \E o \in FetchOutcomes(c.query) : FetchSettles(c, o)
  /\ UNCHANGED <<mockVars, apiVars, formVars, dashVars, styleVars, queryVars>>

\* the tickets page when every request is answered in the end
SpecTicketsFair ==
  SpecTickets /\ \A n \in 1..MaxRequests : WF_vars(FetchResumes(n))

\* the ApiClient
InitApi == ApiInit /\ MockIdle /\ LiveIdle /\ FormInit /\ DashInit /\ StyleInit
  /\ QueryInit
NextApi ==
  ApiNext /\ UNCHANGED <<mockVars, liveVars, formVars, dashVars, styleVars, queryVars>>
SpecApi == InitApi /\ [][NextApi]_vars

\* the new-ticket form
InitForm == FormInit /\ MockIdle /\ LiveIdle /\ ApiInit /\ DashInit /\ StyleInit
  /\ QueryInit
NextForm ==
  FormNext
  /\ UNCHANGED <<lastSubmission, mockVars, liveVars, apiVars, dashVars, styleVars, queryVars>>
SpecForm == InitForm /\ [][NextForm]_vars

\* the new-ticket form as a user operates it: a submit event comes from the
\* Create Ticket button only (a form whose submit button is disabled is not
\* submitted by the Enter key); lastSubmission follows the steps
NextFormUser ==
  FormUserNext /\ RecordSubmission
  /\ UNCHANGED <<mockVars, liveVars, apiVars, dashVars, styleVars, queryVars>>
SpecFormUser == InitForm /\ [][NextFormUser]_vars

\* a step of the form that the event loop takes by itself
FormUserStep(A) ==
  A /\ RecordSubmission
  /\ UNCHANGED <<mockVars, liveVars, apiVars, dashVars, styleVars, queryVars>>

\* the form when every timer that is set fires and every aborted fetch rejects;
\* a fetch that is not aborted may stay without an answer
SpecFormUserFair ==
  SpecFormUser
  /\ \A k \in 1..MaxSubmissions :
       /\ WF_vars(FormUserStep(k \in 1..Len(subs) /\ TimeoutFires(k)))
       /\ WF_vars(FormUserStep(k \in 1..Len(subs) /\ EnableFires(k)))
       /\ WF_vars(FormUserStep(k \in 1..Len(subs) /\ AbortRejects(k)))

\* the dashboard page
InitDashboard == DashInit /\ MockIdle /\ LiveIdle /\ ApiInit /\ FormInit /\ StyleInit
  /\ QueryInit
NextDashboard ==
  DashNext /\ UNCHANGED <<mockVars, liveVars, apiVars, formVars, styleVars, queryVars>>
SpecDashboard == InitDashboard /\ [][NextDashboard]_vars

\* the badge styling functions
InitStyle == StyleInit /\ MockIdle /\ LiveIdle /\ ApiInit /\ FormInit /\ DashInit
  /\ QueryInit
NextStyle ==
  StyleNext /\ UNCHANGED <<mockVars, liveVars, apiVars, formVars, dashVars, queryVars>>
SpecStyle == InitStyle /\ [][NextStyle]_vars

\* getTickets and the endpoint it builds
InitQuery ==
  QueryInit /\ MockIdle /\ LiveIdle /\ ApiInit /\ FormInit /\ DashInit /\ StyleInit
NextQuery ==
  QueryNext /\ UNCHANGED <<mockVars, liveVars, apiVars, formVars, dashVars, styleVars>>
SpecQuery == InitQuery /\ [][NextQuery]_vars

(***************************************************************************)
(* Properties                                                              *)
(***************************************************************************)
\* two characters that differ at most in case
SameLetter(c, d) ==
  \/ c = d
  \/ \E i \in 1..Len(UpperCaseLetters) : {c, d} = {UpperCaseLetters[i], LowerCaseLetters[i]}

\* s occurs in text as a substring, case ignored
ContainsIgnoringCase(text, s) ==
  \E i \in 0..(Len(text) - Len(s)) :
    \A j \in 1..Len(s) : SameLetter(text[i + j], s[j])

\* C1: on the backend-backed tickets page the filtered list is exactly the
\* tickets of the loaded list whose id, subject or customer e-mail contains the
\* search string, case ignored; the empty search string keeps the whole list.
C1_SearchKeepsExactlyTheMatches ==
  filteredTickets =
    SelectSeq(tickets, LAMBDA t :
      \/ ContainsIgnoringCase(t.id, searchQuery)
      \/ ContainsIgnoringCase(t.subject, searchQuery)
      \/ ContainsIgnoringCase(CustomerEmail(t), searchQuery))

\* a search typed with a capital letter keeps some loaded tickets and drops others
C1_Witness ==
  /\ searchQuery # <<>>
  /\ ToLowerCase(searchQuery) # searchQuery
  /\ filteredTickets # <<>>
  /\ Len(filteredTickets) < Len(tickets)

\* the tickets of the mock list that the search string selects, case ignored
MatchedBySearchM ==
  SelectSeq(ticketsM, LAMBDA t :
    \/ ContainsIgnoringCase(t.id, searchQueryM)
    \/ ContainsIgnoringCase(t.subject, searchQueryM)
    \/ ContainsIgnoringCase(t.customer, searchQueryM))

ApiFailedInput ==
  \/ apiInput.kind = "thrown"
  \/ apiInput.kind = "response" /\ ~ResOk(apiInput.res)

\* C3: a call whose fetch resolved with a non-2xx response or rejected returns a
\* result with success = false and a string in error; no call throws.
C3_FailureIsReturnedNotThrown ==
  apiPc = "returned" =>
    /\ ~apiResult.threw
    /\ ApiFailedInput =>
         /\ apiResult.success = FALSE
         /\ apiResult.error # Undefined
         /\ apiResult.error \in STRING

\* a 404 with no message and no status text came back as the failed result "HTTP 404"
C3_Witness ==
  /\ apiPc = "returned"
  /\ apiInput.kind = "response"
  /\ apiInput.res.status = 404
  /\ apiResult.success = FALSE
  /\ apiResult.error = "HTTP 404"

\* the returned call got a 2xx response whose JSON body was read
ApiJsonSuccess ==
  /\ apiPc = "returned"
  /\ apiInput.kind = "response"
  /\ ResOk(apiInput.res)
  /\ apiInput.res.isJson
  /\ apiInput.res.parses

\* C4: for a 2xx JSON response the result is success = true with data =
\* {tickets: A, total: length of A} when the body is the bare array A, and with
\* data equal to the body when the body is an object.
C4_ArrayIsWrappedObjectIsPassed ==
  ApiJsonSuccess =>
    LET body == apiInput.res.body
    IN /\ body.json = "array" =>
            /\ apiResult.success
            /\ apiResult.data =
                 [json |-> "object",
                  fields |-> [tickets |-> body.items, total |-> Len(body.items)]]
       /\ body.json = "object" =>
            /\ apiResult.success
            /\ apiResult.data = body

\* a bare array of two tickets came back wrapped
C4_Witness ==
  /\ ApiJsonSuccess
  /\ apiInput.res.body.json = "array"
  /\ Len(apiInput.res.body.items) = 2
  /\ apiResult.data.fields.total = 2

\* C5: the displayed list is the loaded list restricted by the search, the status
\* filter and the priority filter at once ("all" switching a filter off),
\* whenever the list is on show and no ticket request is in flight.
C5_DisplayedMatchesAllThreeInputs ==
  (ControlsShown /\ pending = {}) =>
    filteredTickets =
      SelectSeq(tickets, LAMBDA t :
        /\ \/ ContainsIgnoringCase(t.id, searchQuery)
           \/ ContainsIgnoringCase(t.subject, searchQuery)
           \/ ContainsIgnoringCase(CustomerEmail(t), searchQuery)
        /\ statusFilter = "all" \/ t.status = statusFilter
        /\ priorityFilter = "all" \/ t.priority = priorityFilter)

\* C6: a call of handleSubmit made while isLoading is true sends no request and
\* changes no state of the form.
C6_SubmitWhileLoadingIsIgnored ==
  [][(isLoadingF /\ HandleSubmit) => UNCHANGED formState]_vars

\* a submit event was turned away while a submission was in progress
C6_Witness ==
  /\ isLoadingF
  /\ subs # <<>>
  /\ consoleLast = "Already submitting, ignoring duplicate request"

\* the ticket-creation requests that are outstanding and not aborted
LiveRequests == {k \in 1..Len(subs) : subs[k].fetch = "pending" /\ ~subs[k].aborted}

\* C7: at most one ticket-creation request that has not been aborted is
\* outstanding at any time.
C7_AtMostOneLiveRequest == Cardinality(LiveRequests) <= 1

\* a request whose 60-second timer had fired was still outstanding when the next
\* submission started, and that submission aborted it
C7_Witness ==
  /\ Len(subs) >= 2
  /\ subs[1].tTimeout = "fired"
  /\ subs[1].fetch = "pending"
  /\ subs[1].aborted
  /\ subs[2].fetch = "pending"
  /\ ~subs[2].aborted

\* C8: a call issues at most one fetch, and exactly one once it has returned,
\* whether it succeeded or failed.
C8_OneFetchPerCall ==
  /\ Len(apiSent) <= 1
  /\ apiPc = "returned" => Len(apiSent) = 1

\* a call that failed on a rejected fetch returned after its one fetch
C8_Witness ==
  /\ apiPc = "returned"
  /\ apiInput.kind = "thrown"
  /\ ~apiResult.success
  /\ Len(apiSent) = 1

\* C9: every fetch carries Authorization: Bearer <token> exactly when the
\* identity provider handed out a token, and is sent with cache "no-store".
C9_BearerIffTokenAndNoStore ==
  \A i \in 1..Len(apiSent) :
    /\ ("Authorization" \in DOMAIN apiSent[i].headers) <=> (apiIdp.kind = "token")
    /\ apiIdp.kind = "token" =>
         apiSent[i].headers["Authorization"] = "Bearer " \o apiIdp.token
    /\ apiSent[i].cache = "no-store"

\* createTicket, which passes its own options, was sent with the token
C9_Witness ==
  /\ Len(apiSent) = 1
  /\ apiMethod = "createTicket"
  /\ apiIdp.kind = "token"
  /\ apiSent[1].method = "POST"
  /\ "Authorization" \in DOMAIN apiSent[1].headers

\* C10: when a ticket fetch ends with a failed result or a thrown exception, a
\* non-empty error message is set and the loaded list is emptied.
C10_FailedFetchSetsErrorAndEmptiesList ==
  [][(lastDone' # lastDone /\ lastDone'.outcome \in {"failed", "threw"}) =>
       /\ error' # Null
       /\ error' # ""
       /\ tickets' = <<>>]_vars

\* a failed result without a message ended a fetch while tickets were on show:
\* the default message is up and the list is empty
C10_Witness ==
  /\ lastDone.outcome = "failed"
  /\ lastDone.n > 1
  /\ error = "Failed to load tickets"
  /\ tickets = <<>>

\* C11: a dashboard load that has reached its await has issued both the tickets
\* request and the analytics request; a load has run to its end, and the
\* loading indicator is cleared, only when both requests have been answered.
C11_BothIssuedThenClearedAfterBoth ==
  /\ \A k \in 1..Len(loads) :
        /\ loads[k].getTickets # NotIssued /\ loads[k].getAnalytics # NotIssued
        /\ loads[k].pc = "done"
             => Answered(loads[k].getTickets) /\ Answered(loads[k].getAnalytics)
  /\ ~isLoadingD => \E k \in 1..Len(loads) : loads[k].pc = "done"

\* a load has ended with tickets to show and the indicator cleared
C11_Witness ==
  /\ ~isLoadingD
  /\ Len(loads) = 1
  /\ loads[1].pc = "done"
  /\ loads[1].getAnalytics.success
  /\ ticketsD # <<>>

\* C12: every ticket-creation request the form sends carries a subject and a
\* description that are not blank, and the submit control is disabled whenever
\* a field is empty or whitespace-only or a submission is in progress.
C12_NoBlankRequestIsSent ==
  /\ [][Len(subs') > Len(subs) => ~IsBlank(subject) /\ ~IsBlank(query)]_vars
  /\ [](IsBlank(subject) \/ IsBlank(query) \/ isLoadingF => SubmitDisabled)

\* a request is out while the fields hold text, and an earlier one was answered
C12_Witness ==
  /\ Len(subs) = 2
  /\ subs[2].fetch = "pending"
  /\ ~IsBlank(subject) /\ ~IsBlank(query)
  /\ isLoadingF

\* two texts that differ at most in the case of their letters
EqualIgnoringCase(a, b) ==
  Len(a) = Len(b) /\ \A i \in 1..Len(a) : SameLetter(a[i], b[i])

\* the labels a styling function knows, each with its style
KnownLabels(fn) ==
  CASE fn = "tickets.getStatusColor" ->
         {<<Labels.open, "red">>, <<Labels.in_progress, "yellow">>,
          <<Labels.waiting_approval, "orange">>,
          <<Labels.resolved, "green">>, <<Labels.closed, "gray">>}
    [] fn = "dashboard.getStatusColor" ->
         {<<Labels.open, "red">>, <<Labels.in_progress, "yellow">>, <<Labels.resolved, "green">>}
    [] OTHER ->
         {<<Labels.urgent, "red">>, <<Labels.high, "orange">>,
          <<Labels.medium, "yellow">>, <<Labels.low, "blue">>}

\* C13: a styling function returns a style for every value; a string that is a
\* known label, whatever the case of its letters, gets that label's style;
\* every other string, the empty string, undefined and null get the gray style.
C13_StylingIsTotalWithGrayDefault ==
  styleFn # "none" =>
    /\ styleResult \in StyleClasses
    /\ \A l \in KnownLabels(styleFn) :
          styleArg.type = "string" /\ EqualIgnoringCase(styleArg.text, l[1])
            => styleResult = l[2]
    /\ \/ styleArg.type # "string"
       \/ \A l \in KnownLabels(styleFn) : ~EqualIgnoringCase(styleArg.text, l[1])
       => styleResult = "gray"

\* the dashboard has styled a known status written with a capital letter
C13_Witness ==
  /\ styleFn = "dashboard.getStatusColor"
  /\ styleArg.type = "string"
  /\ styleArg.text # Labels.resolved
  /\ EqualIgnoringCase(styleArg.text, Labels.resolved)
  /\ styleResult = "green"

\* the value of a filter parameter in a query when the filter is set to value
SentAs(value) == IF value = "all" THEN Null ELSE value

\* C14: the request a filter change handler issues carries the filter values
\* as they are after the change, "all" sent as no parameter.
C14_HandlerRequestCarriesNewValue ==
  [][\A c \in pending' \ pending :
       c.origin = "handler"
         => /\ QueryGet(c.query, "status") = SentAs(statusFilter')
            /\ QueryGet(c.query, "priority") = SentAs(priorityFilter')]_vars

\* C15: when no ticket request is in flight and every request made has been
\* answered with tickets, the loaded list is the backend's answer to the
\* request for the status and priority filters now selected.
C15_FinalListMatchesCurrentFilters ==
  pending = {} /\ issued > 0 /\ lastDone.allOk
    => tickets = BackendList(GetTicketsQuery(FetchParams(statusFilter, priorityFilter)))

\* the timers of submission sub: the 60-second, the redirect and the re-enable timer
TimersOf(sub) == <<sub.tTimeout, sub.tRedirect, sub.tEnable>>

\* a timer of sub has fired in this step
TimerFired(sub, subAfter) ==
  \E t \in 1..3 : TimersOf(sub)[t] # "fired" /\ TimersOf(subAfter)[t] = "fired"

\* once Cancel has sent the user to the dashboard, no timer of an earlier
\* submission fires (the 60-second timer of a settled submission is among them)
NoTimerFiresAfterCancel ==
  [][page = "dashboard"
       => \A k \in 1..Len(subs) : ~TimerFired(subs[k], subs'[k])]_vars

\* C16: once Cancel has sent the user to the dashboard, no timer of an earlier
\* submission takes the user away from it: no delayed redirect to the created
\* ticket happens.
C16_NoRedirectAfterCancel == [][page = "dashboard" => page' = "dashboard"]_vars

\* C17: after a submission has succeeded, pressing Create Ticket with the same
\* subject and description shows the "already submitted" message and sends no
\* request.
C17_ResubmitAfterSuccessIsRejected ==
  [][SubmitClick /\ LastSubmissionSucceeded /\ SameContentAsLast
       => errorF' = AlreadySubmitted /\ subs' = subs]_vars

\* the content of a successful submission was typed and submitted again
C17_Witness ==
  /\ LastSubmissionSucceeded
  /\ SameContentAsLast
  /\ errorF = AlreadySubmitted
  /\ consoleLast = "Duplicate content detected, ignoring request"
  /\ Len(subs) = 1

\* C18: after a submission has failed, pressing Create Ticket sends a request
\* and shows no "already submitted" message, whatever the fields hold, the
\* subject and description of the failed submission included.
C18_ResubmitAfterFailureIsAccepted ==
  [][SubmitClick /\ LastSubmissionFailed
       => Len(subs') = Len(subs) + 1 /\ errorF' # AlreadySubmitted]_vars

\* the first submission timed out and the same content was accepted again
C18_Witness ==
  /\ Len(subs) = 2
  /\ subs[1].tTimeout = "fired" /\ subs[1].tRedirect = "none" /\ subs[1].aborted
  /\ subs[2].fetch = "pending" /\ ~subs[2].settled
  /\ lastSubmission.again

\* C19: Create Ticket is rejected as a duplicate only when the subject and the
\* description both equal those of the submission accepted last.
C19_RejectsOnlyEqualContent ==
  [][SubmitClick /\ subs' = subs => SameContentAsLast]_vars

\* C20: the success message and the error message are never both shown.
C20_SuccessAndErrorNeverBoth == ~(success # <<>> /\ errorF # <<>>)

\* the endpoint requested by the last getTickets call carries key / key=value
EndpointHas(key) ==
  \E i \in 1..(Len(getTicketsCall.endpoint) - 2) :
    getTicketsCall.endpoint[i] = key /\ getTicketsCall.endpoint[i + 1] = "="

EndpointHasValue(key, value) ==
  \E i \in 1..(Len(getTicketsCall.endpoint) - 2) :
    /\ getTicketsCall.endpoint[i] = key
    /\ getTicketsCall.endpoint[i + 1] = "="
    /\ getTicketsCall.endpoint[i + 2] = value

\* C23: getTickets puts status and priority in the query exactly when they are
\* set and not "all", limit exactly when it is a non-zero number, offset
\* whenever it is a number, 0 included, each with its own value; with no
\* parameter set the endpoint has no query string.
C23_QueryHoldsExactlyTheSetParameters ==
  getTicketsCall.called =>
    LET params == getTicketsCall.params
    IN /\ EndpointHas("status") <=> params.status \notin {Undefined, "", "all"}
       /\ EndpointHas("status") => EndpointHasValue("status", params.status)
       /\ EndpointHas("priority") <=> params.priority \notin {Undefined, "", "all"}
       /\ EndpointHas("priority") => EndpointHasValue("priority", params.priority)
       /\ EndpointHas("limit") <=> (params.limit # <<>> /\ params.limit[1] # 0)
       /\ EndpointHas("limit") => EndpointHasValue("limit", ToString(params.limit[1]))
       /\ EndpointHas("offset") <=> params.offset # <<>>
       /\ EndpointHas("offset") => EndpointHasValue("offset", ToString(params.offset[1]))
       /\ params = NoParams => getTicketsCall.endpoint = <<"/tickets/">>

\* getTickets({status: 'all', limit: 0, offset: 0}) requested /tickets/?offset=0
C23_Witness ==
  /\ getTicketsCall.called
  /\ getTicketsCall.params.status = "all"
  /\ getTicketsCall.params.limit = <<0>>
  /\ getTicketsCall.params.offset = <<0>>
  /\ getTicketsCall.endpoint = <<"/tickets/", "?", "offset", "=", "0">>

\* C22: every fetchTickets call that is waiting for its answer gets to its end,
\* and at its end the flag it set is cleared (isInitialLoading for an initial
\* fetch, isLoading for a refresh), whatever the outcome of the request.
C22_EveryFetchClearsItsFlag ==
  \A n \in 1..MaxRequests :
    (\E c \in pending : c.n = n)
      ~> (lastDone.n = n /\ IF lastDone.initial THEN ~isInitialLoading ELSE ~isLoading)

\* a refresh whose request threw has ended and isLoading is cleared
C22_Witness ==
  /\ lastDone.n > 0 /\ ~lastDone.initial /\ lastDone.outcome = "threw"
  /\ ~isLoading /\ error = "Failed to load tickets. Please try again."

\* some request the form has sent is not settled yet
SomeUnsettled == \E k \in 1..Len(subs) : ~subs[k].settled

\* C21: once a submission has sent its request the form is re-enabled in the
\* end (isLoading is false again), and it is never re-enabled while a request
\* is not settled.
C21_ReenabledAfterSettling ==
  /\ (isLoadingF ~> ~isLoadingF)
  /\ [][isLoadingF /\ ~isLoadingF' => ~SomeUnsettled]_vars

\* the second half alone, and the first half for as long as the form is shown:
\* both hold
NotReenabledBeforeSettled == [][isLoadingF /\ ~isLoadingF' => ~SomeUnsettled]_vars
ReenabledUnlessLeft == isLoadingF ~> (~isLoadingF \/ page # "form")

====
